---- MODULE Spec2Model ----
(***************************************************************************)
(* Model of run.py: a gate-level netlist (NOT / AND / DFF cells) is loaded *)
(* into a networkx DiGraph, validated, copied into a CleartextComputer and *)
(* an EncryptedComputer, and both are stepped cycle by cycle.              *)
(***************************************************************************)
EXTENDS Integers, Sequences, FiniteSets, TLC

\* ---------------------------------------------------------------- bounds
MaxCells == 4        \* longest netlist (number of cells) that is enumerated
MaxDefectCells == 2  \* longest netlist in which one pin binding is damaged
MaxCycles == 2       \* number of clock cycles the cycle loop runs
MaxBits == 6         \* longest bit list bits_to_int is called on directly

\* ------------------------------------------------------- python constants
NoneVal == 0 - 1     \* Python's None, for clk_bit and a missing input_node

Range(s) == {s[i] : i \in 1..Len(s)}

\* --------------------------------------------------------------- netlists
\* A cell as json.load returns it: c['type'] and c['connections'][pin].
NotCell(a, y) == [type |-> "NOT", conn |-> [A |-> <<a>>, Y |-> <<y>>]]
AndCell(a, b, y) == [type |-> "AND", conn |-> [A |-> <<a>>, B |-> <<b>>, Y |-> <<y>>]]
DffCell(c, d, q) == [type |-> "DFF", conn |-> [C |-> <<c>>, D |-> <<d>>, Q |-> <<q>>]]
XorCell(a, b, y) == [type |-> "XOR", conn |-> [A |-> <<a>>, B |-> <<b>>, Y |-> <<y>>]]

\* The cells netlists are assembled from (signals 1..4; the clock is signal 0).
CellPool ==
  << NotCell(1, 3),          \* 1
     AndCell(2, 1, 4),       \* 2
     DffCell(0, 3, 1),       \* 3
     DffCell(0, 1, 2),       \* 4
     DffCell(0, 4, 3),       \* 5
     XorCell(2, 4, 1),       \* 6
     NotCell(2, 4),          \* 7
     NotCell(4, 1) >>        \* 8

Signals == 1..4

\* Ordered selections of distinct pool cells (cells is a dict: names are
\* unique), in the order of the pool or in the reverse order.
Monotone(s) ==
  \/ \A i \in 1..(Len(s) - 1) : s[i] < s[i + 1]
  \/ \A i \in 1..(Len(s) - 1) : s[i] > s[i + 1]

Selections(k) ==
  {s \in [1..k -> 1..Len(CellPool)] :
     /\ \A i, j \in 1..k : i # j => s[i] # s[j]
     /\ Monotone(s)}

NetlistOf(s) == [i \in 1..Len(s) |-> CellPool[s[i]]]

WellFormedNetlists == {NetlistOf(s) : s \in UNION {Selections(k) : k \in 0..MaxCells}}

\* One pin of one cell rebound to a list of the wrong length, or (for the
\* clock pin) to a single signal that is not the clock.
DefectLists == {<< >>, <<1, 2>>, <<1>>}

Damage(nl, i, pin, lst) == [nl EXCEPT ![i].conn[pin] = lst]

DefectNetlists ==
  UNION {UNION {{Damage(NetlistOf(s), i, pin, lst) :
                    pin \in DOMAIN CellPool[s[i]].conn, lst \in DefectLists} :
                i \in 1..Len(s)} :
         s \in UNION {Selections(k) : k \in 1..MaxDefectCells}}

Netlists == WellFormedNetlists \cup DefectNetlists

\* gates['ports'] as a sequence of [name, direction, bits] in dict order.
Port(n, d, b) == [name |-> n, direction |-> d, bits |-> b]

GoodPorts(out) ==
  << Port("clk", "input", <<0>>), Port("a", "input", <<1>>), Port("out", "output", out) >>

OutChoices == {<<4>>, <<3, 1>>}

PortChoices ==
  {GoodPorts(o) : o \in OutChoices}
  \cup { << Port("a", "input", <<1>>), Port("out", "output", <<4>>) >>,          \* no clk port
         << Port("clk", "output", <<0>>), Port("out", "output", <<4>>) >>,  \* clk is an output
         << Port("clk", "input", << >>), Port("out", "output", <<4>>) >>,        \* clk binds nothing
         << Port("clk", "input", <<0, 1>>), Port("out", "output", <<4>>) >> }

\* The netlists a run can be started on: a damaged port list fails before
\* the cells are looked at, so it is paired with one netlist only.
Inputs ==
  {[ports |-> p, cells |-> nl] : p \in {GoodPorts(o) : o \in OutChoices}, nl \in Netlists}
  \cup {[ports |-> p, cells |-> NetlistOf(<<1, 2>>)] : p \in PortChoices}

\* ------------------------------------------------------------ nx.DiGraph
\* nodes: insertion order of G._node; succ / pred: insertion order of the
\* adjacency dicts G._succ[u] / G._pred[v].
EmptyGraph ==
  [nodes |-> << >>, succ |-> [n \in Signals |-> << >>], pred |-> [n \in Signals |-> << >>]]

HasNode(g, n) == n \in Range(g.nodes)

AddNode(g, n) == IF HasNode(g, n) THEN g ELSE [g EXCEPT !.nodes = Append(@, n)]

AddEdge(g, u, v) ==
  LET g1 == AddNode(AddNode(g, u), v)
  IN  IF v \in Range(g1.succ[u]) THEN g1
      ELSE [g1 EXCEPT !.succ[u] = Append(@, v), !.pred[v] = Append(@, u)]

\* Node attribute dicts.  A key that is absent is modelled by a default.
NoType == ""
BoolVal(b) == [k |-> "bool", v |-> IF b THEN 1 ELSE 0]
CtRef(n) == [k |-> "ct", v |-> n]
NoValue == [k |-> "none", v |-> 0]
NoAttrs == [type |-> NoType, input_node |-> NoneVal, value |-> NoValue]
EmptyAttrs == [n \in Signals |-> NoAttrs]

\* ------------------------------------------------------------------ state
Evaluators == {"cc", "cc2", "ec"}
EvalOrder == <<"cc", "cc2", "ec">>
Owners == {"G"} \cup Evaluators

\* no get_bits call has been made since the last step
NoCall == [e |-> "", res |-> << >>]

VARIABLES
  pc,               \* position of the script
  ports, cells,     \* gates['ports'], gates['cells']
  ci,               \* index of the cell the cell loop is at
  clk_bit, outputs, \* results of the ports loop
  graph,            \* graph[o]: structure of graph object o (G and its copies)
  attrs,            \* attrs[o][n]: attribute dict of node n of graph object o
  dffs,             \* the set dffs, shared by all evaluators
  unhandled_types,
  ev,               \* ev[e]: the graph object evaluator e holds (self.G), "" before construction
  ct,               \* ct[i]: the bit ciphertext object i encrypts
  cycle,            \* cycles completed by the cycle loop
  turn,             \* index in EvalOrder of the evaluator acting next
  err, errAt,       \* the exception that ended the run and the phase it was raised in
  printed,          \* the output lines of the last cycle: [name, cv, ev] per output port
  ins,              \* history: the primary inputs that were high at each step since the last reset
  outs,             \* history: outs[e] = the output bits of e after each of its steps since its last reset
  got,              \* the evaluator get_bits was last called on between two steps, and the lists returned
  bits_arg, ret         \* argument and return value of a direct call of bits_to_int

vars == <<pc, ports, cells, ci, clk_bit, outputs, graph, attrs, dffs,
          unhandled_types, ev, ct, cycle, turn, err, errAt, printed, ins, outs, got,
          bits_arg, ret>>

Init ==
  /\ \E inp \in Inputs : ports = inp.ports /\ cells = inp.cells
  /\ pc = "ports"
  /\ ci = 1
  /\ clk_bit = NoneVal
  /\ outputs = << >>
  /\ graph = [o \in Owners |-> EmptyGraph]
  /\ attrs = [o \in Owners |-> EmptyAttrs]
  /\ dffs = {}
  /\ unhandled_types = {}
  /\ ev = [e \in Evaluators |-> ""]
  /\ ct = [n \in Signals |-> FALSE]
  /\ cycle = 0
  /\ turn = 1
  /\ err = ""
  /\ errAt = ""
  /\ printed = << >>
  /\ ins = << >>
  /\ outs = [e \in Evaluators |-> << >>]
  /\ got = NoCall
  /\ bits_arg = << >>
  /\ ret = NoneVal

Raise(e, at) == pc' = "error" /\ err' = e /\ errAt' = at

\* ----------------------------------------------------------- ports loop
RECURSIVE PortsLoop(_, _, _)
PortsLoop(ps, clk, acc) ==
  IF ps = << >> THEN [err |-> "", clk_bit |-> clk, outputs |-> acc]
  ELSE LET p == Head(ps)
       IN  IF p.name = "clk" /\ (p.direction # "input" \/ Len(p.bits) # 1)
           THEN [err |-> "AssertionError", clk_bit |-> clk, outputs |-> acc]
           ELSE PortsLoop(Tail(ps),
                          IF p.name = "clk" THEN p.bits[1] ELSE clk,
                          IF p.direction = "output"
                            THEN Append(acc, [name |-> p.name, bits |-> p.bits])
                            ELSE acc)

ReadPorts ==
  /\ pc = "ports"
  /\ LET r == PortsLoop(ports, NoneVal, << >>)
     IN  IF r.err # "" \/ r.clk_bit = NoneVal
         THEN /\ Raise("AssertionError", "load")
              /\ UNCHANGED <<clk_bit, outputs>>
         ELSE /\ pc' = IF Len(cells) = 0 THEN "validate" ELSE "cells"
              /\ clk_bit' = r.clk_bit
              /\ outputs' = r.outputs
              /\ UNCHANGED <<err, errAt>>
  /\ UNCHANGED <<ports, cells, ci, graph, attrs, dffs, unhandled_types, ev, ct, cycle, turn,
                 printed, ins, outs>>
  /\ UNCHANGED <<got, bits_arg, ret>>

\* ------------------------------------------------------------ cell loop
\* variant: a non-empty list is accepted and its first signal is used
assert_not_empty(lst) == Len(lst) >= 1

assert_only_one(lst) == Len(lst) = 1

conns_ok(c, names) == \A n \in names : assert_only_one(c.conn[n])

\* variant: the clock pin of a DFF cell is not compared with clk_bit
clock_unchecked(c, clk) == TRUE

clock_ok(c, clk) == c = clk

SetType(at, n, t) == [at EXCEPT ![n].type = t]

\* G.nodes[q]['type'] = 'DFF'; G.nodes[q]['input_node'] = d; dffs.add(q)
\* G.nodes[q] raises KeyError when q is not yet a node of G.
DffNodeOk(g, q) == HasNode(g, q)

\* One iteration of the cell loop on cell c.
LoadCellResult(c, g, at, ds, ut, clk) ==
  LET same == [err |-> "", G |-> g, attrs |-> at, dffs |-> ds, unhandled |-> ut]
      pin(n) == c.conn[n][1]
  IN  CASE c.type = "NOT" ->
             IF ~conns_ok(c, {"A", "Y"}) THEN [same EXCEPT !.err = "AssertionError"]
             ELSE [same EXCEPT !.G = AddEdge(g, pin("A"), pin("Y")),
                               !.attrs = SetType(at, pin("Y"), "NOT")]
        [] c.type = "AND" ->
             IF ~conns_ok(c, {"A", "B", "Y"}) THEN [same EXCEPT !.err = "AssertionError"]
             ELSE [same EXCEPT !.G = AddEdge(AddEdge(g, pin("A"), pin("Y")), pin("B"), pin("Y")),
                               !.attrs = SetType(at, pin("Y"), "AND")]
        [] c.type = "DFF" ->
             IF ~conns_ok(c, {"C", "D", "Q"}) THEN [same EXCEPT !.err = "AssertionError"]
             ELSE IF ~clock_ok(pin("C"), clk) THEN [same EXCEPT !.err = "AssertionError"]
             ELSE IF ~DffNodeOk(g, pin("Q")) THEN [same EXCEPT !.err = "KeyError"]
             ELSE [same EXCEPT !.attrs = [at EXCEPT ![pin("Q")].type = "DFF",
                                                    ![pin("Q")].input_node = pin("D")],
                               !.dffs = ds \cup {pin("Q")}]
        [] OTHER -> [same EXCEPT !.unhandled = ut \cup {c.type}]

LoadCell ==
  /\ pc = "cells"
  /\ ci <= Len(cells)
  /\ LET r == LoadCellResult(cells[ci], graph["G"], attrs["G"], dffs, unhandled_types, clk_bit)
     IN  /\ graph' = [graph EXCEPT !["G"] = r.G]
         /\ attrs' = [attrs EXCEPT !["G"] = r.attrs]
         /\ dffs' = r.dffs
         /\ unhandled_types' = r.unhandled
         /\ IF r.err # ""
            THEN Raise(r.err, "load") /\ UNCHANGED ci
            ELSE /\ ci' = ci + 1
                 /\ pc' = IF ci = Len(cells) THEN "validate" ELSE "cells"
                 /\ UNCHANGED <<err, errAt>>
  /\ UNCHANGED <<ports, cells, clk_bit, outputs, ev, ct, cycle, turn, printed, ins, outs>>
  /\ UNCHANGED <<got, bits_arg, ret>>

\* ------------------------------------------------------------ validation
RECURSIVE ReachFrom(_, _, _)
ReachFrom(g, S, undirected) ==
  LET next == S \cup {m \in Signals : \E n \in S :
                         \/ m \in Range(g.succ[n])
                         \/ undirected /\ m \in Range(g.pred[n])}
  IN  IF next = S THEN S ELSE ReachFrom(g, next, undirected)

\* nx.is_weakly_connected: raises NetworkXPointlessConcept on the null graph.
is_weakly_connected(g) == ReachFrom(g, {g.nodes[1]}, TRUE) = Range(g.nodes)

is_directed_acyclic_graph(g) ==
  \A n \in Range(g.nodes) : n \notin ReachFrom(g, Range(g.succ[n]), FALSE)

ValidateResult(g) ==
  IF Len(g.nodes) = 0 THEN "NetworkXPointlessConcept"
  ELSE IF ~is_weakly_connected(g) THEN "AssertionError"
  ELSE IF ~is_directed_acyclic_graph(g) THEN "AssertionError"
  ELSE ""

Validate ==
  /\ pc = "validate"
  /\ LET r == ValidateResult(graph["G"])
     IN  IF r # "" THEN Raise(r, "validate")
         ELSE pc' = "construct" /\ UNCHANGED <<err, errAt>>
  /\ UNCHANGED <<ports, cells, ci, clk_bit, outputs, graph, attrs, dffs,
                 unhandled_types, ev, ct, cycle, turn, printed, ins, outs>>
  /\ UNCHANGED <<got, bits_arg, ret>>

\* ------------------------------------------------------------- G.copy()
\* DiGraph.copy() re-adds the nodes in order and then the edges source by
\* source, so the predecessor dicts of the copy are ordered by the position
\* of the source node, not by the order the edges were first added in.
GraphCopy(g) ==
  [nodes |-> g.nodes,
   succ |-> g.succ,
   pred |-> [v \in Signals |-> SelectSeq(g.nodes, LAMBDA u : v \in Range(g.succ[u]))]]

\* variant: the evaluators are handed G itself
CopyTargetNoCopy(e) == "G"

\* variant: one copy of G is made and handed to every evaluator
CopyTargetShared(e) == "cc"

\* The graph object an evaluator is handed: G.copy() is a new object.
CopyTarget(e) == e

\* ------------------------------------------------------ python semantics
PyTruthy(x) == IF x.k = "bool" THEN x.v = 1 ELSE TRUE
PyNot(x) == BoolVal(~PyTruthy(x))
PyAnd(x, y) == IF PyTruthy(x) THEN y ELSE x

\* Iteration order of a set of small ints: the slot of i is i itself.
RECURSIVE SetIter(_)
SetIter(S) ==
  IF S = {} THEN << >>
  ELSE LET m == CHOOSE x \in S : \A y \in S : x <= y
       IN  <<m>> \o SetIter(S \ {m})

\* ---------------------------------------------------- topological_sort
RECURSIVE VisitChildren(_, _, _)
VisitChildren(children, deg, nxt) ==
  IF children = << >> THEN [deg |-> deg, nxt |-> nxt]
  ELSE LET c == Head(children)
           d == deg[c] - 1
       IN  VisitChildren(Tail(children), [deg EXCEPT ![c] = d],
                         IF d = 0 THEN Append(nxt, c) ELSE nxt)

RECURSIVE VisitGeneration(_, _, _, _)
VisitGeneration(g, gen, deg, nxt) ==
  IF gen = << >> THEN [deg |-> deg, nxt |-> nxt]
  ELSE LET r == VisitChildren(g.succ[Head(gen)], deg, nxt)
       IN  VisitGeneration(g, Tail(gen), r.deg, r.nxt)

RECURSIVE TopoLoop(_, _, _, _)
TopoLoop(g, zero, deg, acc) ==
  IF zero = << >> THEN acc
  ELSE LET r == VisitGeneration(g, zero, deg, << >>)
       IN  TopoLoop(g, r.nxt, r.deg, acc \o zero)

\* variant: the nodes are visited in the order they were added to the graph
insertion_order(g) == g.nodes

topological_sort(g) ==
  TopoLoop(g, SelectSeq(g.nodes, LAMBDA n : Len(g.pred[n]) = 0),
           [n \in Signals |-> Len(g.pred[n])], << >>)

\* ------------------------------------------------------ CleartextComputer
\* variant: reset only initializes the nodes that have no value yet
CcResetMissingOnly(g, at) ==
  [n \in Signals |-> IF HasNode(g, n) /\ at[n].value = NoValue
                     THEN [at[n] EXCEPT !.value = BoolVal(FALSE)] ELSE at[n]]

CcReset(g, at) ==
  [n \in Signals |-> IF HasNode(g, n) THEN [at[n] EXCEPT !.value = BoolVal(FALSE)] ELSE at[n]]

\* variant: a node without a type is cleared when the loop passes it
PrimaryCombCleared(at, n) == [at EXCEPT ![n].value = BoolVal(FALSE)]

\* if 'type' not in attrs: continue
PrimaryComb(at, n) == at

\* variant: a DFF node takes the value of its input_node when the loop passes it
DffCombTransparent(at, n) ==
  IF at[n].input_node \in Signals /\ at[at[n].input_node].value # NoValue
  THEN [at EXCEPT ![n].value = at[at[n].input_node].value] ELSE at

\* if attrs['type'] == 'DFF': only the assertion, no assignment
DffComb(at, n) == at

RECURSIVE CcCombLoop(_, _, _)
CcCombLoop(order, g, at) ==
  IF order = << >> THEN [err |-> "", attrs |-> at]
  ELSE LET n == Head(order)
           a == at[n]
           preds == g.pred[n]
           fail(e) == [err |-> e, attrs |-> at]
       IN  CASE a.type = NoType -> CcCombLoop(Tail(order), g, PrimaryComb(at, n))
             [] a.type = "DFF" ->
                  IF a.value = NoValue THEN fail("AssertionError")
                  ELSE CcCombLoop(Tail(order), g, DffComb(at, n))
             [] a.type = "NOT" ->
                  IF Len(preds) # 1 THEN fail("AssertionError")
                  ELSE IF at[preds[1]].value = NoValue THEN fail("KeyError")
                  ELSE CcCombLoop(Tail(order), g,
                                  [at EXCEPT ![n].value = PyNot(at[preds[1]].value)])
             [] a.type = "AND" ->
                  IF Len(preds) # 2 THEN fail("AssertionError")
                  ELSE IF at[preds[1]].value = NoValue \/ at[preds[2]].value = NoValue
                       THEN fail("KeyError")
                  ELSE CcCombLoop(Tail(order), g,
                                  [at EXCEPT ![n].value =
                                     PyAnd(at[preds[1]].value, at[preds[2]].value)])
             [] OTHER -> fail("AssertionError")

RECURSIVE CcCommitLoop(_, _, _)
CcCommitLoop(ds, g, at) ==
  IF ds = << >> THEN [err |-> "", attrs |-> at]
  ELSE LET n == Head(ds)
           inp_node == at[n].input_node
       IN  IF ~HasNode(g, n) \/ ~HasNode(g, inp_node) \/ at[inp_node].value = NoValue
           THEN [err |-> "KeyError", attrs |-> at]
           ELSE CcCommitLoop(Tail(ds), g, [at EXCEPT ![n].value = at[inp_node].value])

\* variant: the list is built last requested signal first
CcGetBitsBackwards(g, at, bits) ==
  IF \E i \in 1..Len(bits) : ~HasNode(g, bits[i]) \/ at[bits[i]].value = NoValue
  THEN [err |-> "KeyError", bits |-> << >>]
  ELSE [err |-> "", bits |-> [i \in 1..Len(bits) |-> at[bits[Len(bits) + 1 - i]].value]]

CcGetBits(g, at, bits) ==
  IF \E i \in 1..Len(bits) : ~HasNode(g, bits[i]) \/ at[bits[i]].value = NoValue
  THEN [err |-> "KeyError", bits |-> << >>]
  ELSE [err |-> "", bits |-> [i \in 1..Len(bits) |-> at[bits[i]].value]]

\* ------------------------------------------------------ EncryptedComputer
\* new_bit() gives every node a ciphertext object of its own; bootsCONSTANT
\* sets it to an encryption of 0.
EcReset(g, at) ==
  [n \in Signals |-> IF HasNode(g, n) THEN [at[n] EXCEPT !.value = CtRef(n)] ELSE at[n]]

EcResetCt(g, c) == [n \in Signals |-> IF HasNode(g, n) THEN FALSE ELSE c[n]]

IsCt(x) == x.k = "ct"

\* bootsNOT / bootsAND / bootsCOPY write their result into the ciphertext
\* object passed first.
\* variant: the negation is dropped
bootsNOT_copy(c, result, ca) == [c EXCEPT ![result.v] = c[ca.v]]

bootsNOT(c, result, ca) == [c EXCEPT ![result.v] = ~c[ca.v]]
bootsAND(c, result, ca, cb) == [c EXCEPT ![result.v] = c[ca.v] /\ c[cb.v]]
bootsCOPY(c, result, ca) == [c EXCEPT ![result.v] = c[ca.v]]

RECURSIVE EcCombLoop(_, _, _, _)
EcCombLoop(order, g, at, c) ==
  IF order = << >> THEN [err |-> "", ct |-> c]
  ELSE LET n == Head(order)
           a == at[n]
           preds == g.pred[n]
           fail(e) == [err |-> e, ct |-> c]
       IN  CASE a.type = NoType -> EcCombLoop(Tail(order), g, at, c)
             [] a.type = "DFF" ->
                  IF a.value = NoValue THEN fail("AssertionError")
                  ELSE EcCombLoop(Tail(order), g, at, c)
             [] a.type = "NOT" ->
                  IF Len(preds) # 1 THEN fail("AssertionError")
                  ELSE IF at[preds[1]].value = NoValue THEN fail("KeyError")
                  ELSE IF ~IsCt(a.value) \/ ~IsCt(at[preds[1]].value) THEN fail("TypeError")
                  ELSE EcCombLoop(Tail(order), g, at,
                                  bootsNOT(c, a.value, at[preds[1]].value))
             [] a.type = "AND" ->
                  IF Len(preds) # 2 THEN fail("AssertionError")
                  ELSE IF at[preds[1]].value = NoValue \/ at[preds[2]].value = NoValue
                       THEN fail("KeyError")
                  ELSE IF ~IsCt(a.value) \/ ~IsCt(at[preds[1]].value)
                          \/ ~IsCt(at[preds[2]].value) THEN fail("TypeError")
                  ELSE EcCombLoop(Tail(order), g, at,
                                  bootsAND(c, a.value, at[preds[1]].value, at[preds[2]].value))
             [] OTHER -> fail("AssertionError")

RECURSIVE EcCommitLoop(_, _, _, _)
EcCommitLoop(ds, g, at, c) ==
  IF ds = << >> THEN [err |-> "", ct |-> c]
  ELSE LET n == Head(ds)
           inp_node == at[n].input_node
       IN  IF ~HasNode(g, n) \/ ~HasNode(g, inp_node) \/ at[inp_node].value = NoValue
           THEN [err |-> "KeyError", ct |-> c]
           ELSE IF ~IsCt(at[n].value) \/ ~IsCt(at[inp_node].value)
           THEN [err |-> "TypeError", ct |-> c]
           ELSE EcCommitLoop(Tail(ds), g, at, bootsCOPY(c, at[n].value, at[inp_node].value))

\* tfhe.decrypt of the ciphertext a node holds
decrypt(c, x) == BoolVal(c[x.v])

EcGetBits(g, at, c, bits) ==
  IF \E i \in 1..Len(bits) : ~HasNode(g, bits[i]) \/ at[bits[i]].value = NoValue
  THEN [err |-> "KeyError", bits |-> << >>]
  ELSE IF \E i \in 1..Len(bits) : ~IsCt(at[bits[i]].value)
  THEN [err |-> "TypeError", bits |-> << >>]
  ELSE [err |-> "", bits |-> [i \in 1..Len(bits) |-> decrypt(c, at[bits[i]].value)]]

\* ------------------------------------------------------------ bits_to_int
RECURSIVE bits_to_int_loop(_, _)
bits_to_int_loop(rev, acc) ==
  IF rev = << >> THEN acc
  ELSE bits_to_int_loop(Tail(rev), 2 * acc + (IF PyTruthy(Head(rev)) THEN 1 ELSE 0))

\* variant: the list is consumed first element first
not_reversed(s) == s

reversed(s) == [i \in 1..Len(s) |-> s[Len(s) + 1 - i]]

bits_to_int(bits) == bits_to_int_loop(reversed(bits), 0)

\* ------------------------------------------- construction of evaluators
NextTurn == IF turn = Len(EvalOrder) THEN 1 ELSE turn + 1

\* CleartextComputer(G.copy(), dffs) / EncryptedComputer(G.copy(), dffs):
\* the copy is taken, stored in self.G, and reset() is called.
Construct ==
  /\ pc = "construct"
  /\ LET e == EvalOrder[turn]
         o == CopyTarget(e)
         g == GraphCopy(graph["G"])
     IN  /\ graph' = [graph EXCEPT ![o] = g]
         /\ attrs' = [attrs EXCEPT ![o] = IF e = "ec" THEN EcReset(g, attrs["G"])
                                                      ELSE CcReset(g, attrs["G"])]
         /\ ct' = IF e = "ec" THEN EcResetCt(g, ct) ELSE ct
         /\ ev' = [ev EXCEPT ![e] = o]
  /\ turn' = NextTurn
  /\ pc' = IF turn = Len(EvalOrder) THEN "comb" ELSE "construct"
  /\ UNCHANGED <<ports, cells, ci, clk_bit, outputs, dffs, unhandled_types, cycle,
                 err, errAt, printed, ins, outs>>
  /\ UNCHANGED <<got, bits_arg, ret>>

\* ------------------------------------------------------------------ step
IsPrimary(at, n) == at[n].type = NoType

HighInputs(g, at) ==
  {n \in Range(g.nodes) : IsPrimary(at, n) /\ at[n].value = BoolVal(TRUE)}

GetBits(e, g, at, c, bits) ==
  IF e = "ec" THEN EcGetBits(g, at, c, bits) ELSE CcGetBits(g, at, bits)

Snapshot(e, g, at, c) == [i \in 1..Len(outputs) |-> GetBits(e, g, at, c, outputs[i].bits)]

\* variant: the exception is reported and the step goes on to its commit loop
StepFailedLogged(e) == pc' = "commit" /\ err' = e /\ errAt' = "step"

\* An exception raised inside step() is caught nowhere: the script ends.
StepFailed(e) == Raise(e, "step")

\* First half of step(): the loop over dag.topological_sort(self.G).
StepComb ==
  /\ pc = "comb"
  /\ cycle < MaxCycles
  /\ LET e == EvalOrder[turn]
         o == ev[e]
         g == graph[o]
         order == topological_sort(g)
         unfeasible == Len(order) # Len(g.nodes)
     IN  IF e = "ec"
         THEN LET r == EcCombLoop(order, g, attrs[o], ct)
              IN  /\ ct' = r.ct
                  /\ UNCHANGED attrs
                  /\ IF r.err # "" THEN StepFailed(r.err)
                     ELSE IF unfeasible THEN StepFailed("NetworkXUnfeasible")
                     ELSE pc' = "commit" /\ UNCHANGED <<err, errAt>>
         ELSE LET r == CcCombLoop(order, g, attrs[o])
              IN  /\ attrs' = [attrs EXCEPT ![o] = r.attrs]
                  /\ UNCHANGED ct
                  /\ IF r.err # "" THEN StepFailed(r.err)
                     ELSE IF unfeasible THEN StepFailed("NetworkXUnfeasible")
                     ELSE pc' = "commit" /\ UNCHANGED <<err, errAt>>
  /\ ins' = IF turn = 1 THEN Append(ins, HighInputs(graph[ev["cc"]], attrs[ev["cc"]])) ELSE ins
  /\ got' = NoCall
  /\ UNCHANGED <<ports, cells, ci, clk_bit, outputs, graph, dffs, unhandled_types, ev,
                 cycle, turn, printed, outs>>
  /\ UNCHANGED <<bits_arg, ret>>

\* Second half of step(): the loop over self.dffs.
StepCommit ==
  /\ pc = "commit"
  /\ LET e == EvalOrder[turn]
         o == ev[e]
         g == graph[o]
         done(at, c) ==
           /\ outs' = [outs EXCEPT ![e] = Append(@, Snapshot(e, g, at, c))]
           /\ turn' = NextTurn
           /\ pc' = IF turn = Len(EvalOrder) THEN "output" ELSE "comb"
           /\ UNCHANGED <<err, errAt>>
     IN  IF e = "ec"
         THEN LET r == EcCommitLoop(SetIter(dffs), g, attrs[o], ct)
              IN  /\ ct' = r.ct
                  /\ UNCHANGED attrs
                  /\ IF r.err # "" THEN StepFailed(r.err) /\ UNCHANGED <<outs, turn>>
                     ELSE done(attrs[o], r.ct)
         ELSE LET r == CcCommitLoop(SetIter(dffs), g, attrs[o])
              IN  /\ attrs' = [attrs EXCEPT ![o] = r.attrs]
                  /\ UNCHANGED ct
                  /\ IF r.err # "" THEN StepFailed(r.err) /\ UNCHANGED <<outs, turn>>
                     ELSE done(r.attrs, ct)
  /\ UNCHANGED <<ports, cells, ci, clk_bit, outputs, graph, dffs, unhandled_types, ev,
                 cycle, printed, ins>>
  /\ UNCHANGED <<got, bits_arg, ret>>

\* --------------------------------------------------------------- outputs
RECURSIVE OutputLoop(_, _)
OutputLoop(outs_left, acc) ==
  IF outs_left = << >> THEN [err |-> "", lines |-> acc]
  ELSE LET p == Head(outs_left)
           c == CcGetBits(graph[ev["cc"]], attrs[ev["cc"]], p.bits)
           x == EcGetBits(graph[ev["ec"]], attrs[ev["ec"]], ct, p.bits)
       IN  IF c.err # "" THEN [err |-> c.err, lines |-> acc]
           ELSE IF x.err # "" THEN [err |-> x.err, lines |-> acc]
           ELSE OutputLoop(Tail(outs_left),
                           Append(acc, [name |-> p.name, cv |-> bits_to_int(c.bits),
                                        ev |-> bits_to_int(x.bits)]))

Output ==
  /\ pc = "output"
  /\ LET r == OutputLoop(outputs, << >>)
     IN  /\ printed' = r.lines
         /\ IF r.err # "" THEN Raise(r.err, "output") /\ UNCHANGED cycle
            ELSE /\ cycle' = cycle + 1
                 /\ pc' = IF cycle + 1 = MaxCycles THEN "done" ELSE "comb"
                 /\ UNCHANGED <<err, errAt>>
  /\ UNCHANGED <<ports, cells, ci, clk_bit, outputs, graph, attrs, dffs, unhandled_types,
                 ev, ct, turn, ins, outs>>
  /\ UNCHANGED <<got, bits_arg, ret>>

\* ------------------------------------------------- environment of a run
Idle == pc = "comb" /\ turn = 1 /\ cycle < MaxCycles

\* A primary value (a node without a type) is driven from outside between
\* two cycles: the same bit is written into every evaluator.
ForceInput(n, b) ==
  /\ Idle
  /\ HasNode(graph["G"], n)
  /\ IsPrimary(attrs["G"], n)
  /\ attrs[ev["cc"]][n].value # BoolVal(b)
  /\ attrs' = [o \in Owners |->
                 IF o \in {ev["cc"], ev["cc2"]}
                 THEN [attrs[o] EXCEPT ![n].value = BoolVal(b)] ELSE attrs[o]]
  /\ ct' = LET x == attrs[ev["ec"]][n].value
           IN  IF IsCt(x) THEN [ct EXCEPT ![x.v] = b] ELSE ct
  /\ got' = NoCall
  /\ UNCHANGED <<pc, ports, cells, ci, clk_bit, outputs, graph, dffs, unhandled_types, ev,
                 cycle, turn, err, errAt, printed, ins, outs>>
  /\ UNCHANGED <<bits_arg, ret>>

\* reset() is called again on every evaluator, in construction order.
Restart ==
  /\ Idle
  /\ outs["cc"] # << >>
  /\ pc' = "reset"
  /\ got' = NoCall
  /\ UNCHANGED <<ports, cells, ci, clk_bit, outputs, graph, attrs, dffs, unhandled_types, ev,
                 ct, cycle, turn, err, errAt, printed, ins, outs>>
  /\ UNCHANGED <<bits_arg, ret>>

Reset ==
  /\ pc = "reset"
  /\ LET e == EvalOrder[turn]
         o == ev[e]
     IN  /\ attrs' = [attrs EXCEPT ![o] = IF e = "ec" THEN EcReset(graph[o], attrs[o])
                                                      ELSE CcReset(graph[o], attrs[o])]
         /\ ct' = IF e = "ec" THEN EcResetCt(graph[o], ct) ELSE ct
         /\ outs' = [outs EXCEPT ![e] = << >>]
  /\ ins' = IF turn = 1 THEN << >> ELSE ins
  /\ turn' = NextTurn
  /\ pc' = IF turn = Len(EvalOrder) THEN "comb" ELSE "reset"
  /\ UNCHANGED <<ports, cells, ci, clk_bit, outputs, graph, dffs, unhandled_types, ev,
                 cycle, err, errAt, printed>>
  /\ UNCHANGED <<got, bits_arg, ret>>

\* get_bits is called on evaluator e, once per declared output port, between
\* two cycles (after the output loop of the earlier one); the lists it
\* returns are kept.
CallGetBits(e) ==
  /\ Idle
  /\ cycle >= 1
  /\ got' = [e |-> e, res |-> Snapshot(e, graph[ev[e]], attrs[ev[e]], ct)]
  /\ UNCHANGED <<pc, ports, cells, ci, clk_bit, outputs, graph, attrs, dffs, unhandled_types, ev,
                 ct, cycle, turn, err, errAt, printed, ins, outs, bits_arg, ret>>

Next ==
  \/ ReadPorts
  \/ LoadCell
  \/ Validate
  \/ Construct
  \/ StepComb
  \/ StepCommit
  \/ Output
  \/ \E n \in Signals, b \in BOOLEAN : ForceInput(n, b)
  \/ Restart
  \/ Reset
  \/ \E e \in {"cc", "ec"} : CallGetBits(e)

Spec == Init /\ [][Next]_vars

\* ------------------------------------------- bits_to_int called directly
BitLists == UNION {[1..n -> {BoolVal(FALSE), BoolVal(TRUE)}] : n \in 0..MaxBits}

BitsInit ==
  /\ bits_arg \in BitLists
  /\ ret = NoneVal
  /\ pc = "bits_to_int"
  /\ ports = << >> /\ cells = << >>
  /\ ci = 1
  /\ clk_bit = NoneVal
  /\ outputs = << >>
  /\ graph = [o \in Owners |-> EmptyGraph]
  /\ attrs = [o \in Owners |-> EmptyAttrs]
  /\ dffs = {}
  /\ unhandled_types = {}
  /\ ev = [e \in Evaluators |-> ""]
  /\ ct = [n \in Signals |-> FALSE]
  /\ cycle = 0
  /\ turn = 1
  /\ err = ""
  /\ errAt = ""
  /\ printed = << >>
  /\ ins = << >>
  /\ outs = [e \in Evaluators |-> << >>]
  /\ got = NoCall

CallBitsToInt ==
  /\ pc = "bits_to_int"
  /\ ret' = bits_to_int(bits_arg)
  /\ pc' = "returned"
  /\ UNCHANGED <<ports, cells, ci, clk_bit, outputs, graph, attrs, dffs, unhandled_types, ev,
                 ct, cycle, turn, err, errAt, printed, ins, outs, got, bits_arg>>

BitsNext == CallBitsToInt

BitsSpec == BitsInit /\ [][BitsNext]_vars

\* ======================================================== properties
Recognized == {"NOT", "AND", "DFF"}

\* The bit a node of evaluator e holds, decrypted when it is a ciphertext.
DecodedIn(at, c, n) == LET x == at[n].value IN IF IsCt(x) THEN BoolVal(c[x.v]) ELSE x

Decoded(e, n) == DecodedIn(attrs[ev[e]], ct, n)

Acting == EvalOrder[turn]

\* C1: for every register R, the value R holds after the commit of a cycle
\* equals the value its data-input signal held when the combinational phase
\* of that cycle ended, before any register was committed.
C1_RegisterLatency ==
  [][(pc = "commit" /\ pc' # "error") =>
       \A e \in Evaluators : e = Acting =>
         \A r \in dffs :
           DecodedIn(attrs'[ev[e]], ct', r) = Decoded(e, attrs[ev[e]][r].input_node)]_vars

\* C2: after every cycle the decoded bits of every declared output port are
\* the same in the CleartextComputer and in the EncryptedComputer.
AfterCycle == pc \in {"output", "done"} \/ (pc = "comb" /\ turn = 1 /\ cycle > 0)

C2_BackendEquivalence ==
  AfterCycle =>
    \A i \in 1..Len(outputs) :
      CcGetBits(graph[ev["cc"]], attrs[ev["cc"]], outputs[i].bits)
        = EcGetBits(graph[ev["ec"]], attrs[ev["ec"]], ct, outputs[i].bits)

C2_Witness ==
  /\ pc = "output"
  /\ cycle >= 1
  /\ dffs # {}
  /\ \E i \in 1..Len(outputs) :
       LET r == EcGetBits(graph[ev["ec"]], attrs[ev["ec"]], ct, outputs[i].bits)
       IN  r.err = "" /\ \E j \in 1..Len(r.bits) : r.bits[j] = BoolVal(TRUE)

\* C3: the netlist of one AND cell (inputs A = 2, B = 1, output 4) and one
\* DFF cell R = 3 fed by the AND output loads and passes validation; R = 0
\* after cycle 1; with A and B forced to 1 before cycle 2, R = 1 after
\* cycle 2 and after cycle 3.
ScenarioNetlist ==
  cells \in {<<AndCell(2, 1, 4), DffCell(0, 4, 3)>>, <<DffCell(0, 4, 3), AndCell(2, 1, 4)>>}

C3_Scenario ==
  ScenarioNetlist =>
    /\ ~(pc = "error" /\ errAt \in {"load", "validate"})
    /\ (pc = "output" /\ ins = <<{}>>) => Decoded("cc", 3) = BoolVal(FALSE)
    /\ (pc = "output" /\ ins = <<{}, {1, 2}>>) => Decoded("cc", 3) = BoolVal(TRUE)
    /\ (pc = "output" /\ ins = <<{}, {1, 2}, {1, 2}>>) => Decoded("cc", 3) = BoolVal(TRUE)

\* C4: reset sets every node of the evaluator to false and leaves the graph
\* alone, and the outputs of the steps after it are those a freshly
\* constructed evaluator produces under the same inputs.
ApplyInputs(g, at, iv) ==
  [n \in Signals |-> IF HasNode(g, n) /\ IsPrimary(at, n)
                     THEN [at[n] EXCEPT !.value = BoolVal(n \in iv)] ELSE at[n]]

RECURSIVE CcRun(_, _, _, _)
CcRun(g, at, ivs, acc) ==
  IF ivs = << >> THEN acc
  ELSE LET r == CcCombLoop(topological_sort(g), g, ApplyInputs(g, at, Head(ivs)))
           r2 == CcCommitLoop(SetIter(dffs), g, r.attrs)
       IN  IF r.err # "" \/ r2.err # "" THEN acc
           ELSE CcRun(g, r2.attrs, Tail(ivs), Append(acc, Snapshot("cc", g, r2.attrs, ct)))

ApplyInputsCt(g, at, c, iv) ==
  [i \in Signals |-> IF \E n \in Range(g.nodes) : IsPrimary(at, n) /\ at[n].value = CtRef(i)
                     THEN \E n \in Range(g.nodes) : IsPrimary(at, n) /\ at[n].value = CtRef(i) /\ n \in iv
                     ELSE c[i]]

RECURSIVE EcRun(_, _, _, _, _)
EcRun(g, at, c, ivs, acc) ==
  IF ivs = << >> THEN acc
  ELSE LET r == EcCombLoop(topological_sort(g), g, at, ApplyInputsCt(g, at, c, Head(ivs)))
           r2 == EcCommitLoop(SetIter(dffs), g, at, r.ct)
       IN  IF r.err # "" \/ r2.err # "" THEN acc
           ELSE EcRun(g, at, r2.ct, Tail(ivs), Append(acc, Snapshot("ec", g, at, r2.ct)))

FreshOutputs(e, ivs) ==
  LET g == GraphCopy(graph["G"])
  IN  IF e = "ec" THEN EcRun(g, EcReset(g, attrs["G"]), EcResetCt(g, ct), ivs, << >>)
      ELSE CcRun(g, CcReset(g, attrs["G"]), ivs, << >>)

Structure(o) == [n \in Signals |-> <<attrs[o][n].type, attrs[o][n].input_node>>]

C4_ResetRestarts ==
  /\ [](pc = "output" => \A e \in Evaluators : outs[e] = FreshOutputs(e, ins))
  /\ [][pc = "reset" =>
          \A e \in Evaluators : e = Acting =>
            /\ \A n \in Range(graph[ev[e]].nodes) :
                 DecodedIn(attrs'[ev[e]], ct', n) = BoolVal(FALSE)
            /\ graph' = graph
            /\ Structure(ev[e])' = Structure(ev[e])
            /\ dffs' = dffs]_vars

\* a cycle has been stepped after a reset that followed an earlier cycle
C4_Witness ==
  /\ pc = "output"
  /\ cycle >= 1
  /\ Len(outs["ec"]) <= cycle
  /\ outs["ec"] # << >>
  /\ \E n \in Range(graph["G"].nodes) : Decoded("cc", n) = BoolVal(TRUE)

\* C5: two CleartextComputer instances over copies of the same graph, reset
\* and stepped the same number of times under the same inputs, give the
\* same output bits after every cycle.
C5_Determinism ==
  \A k \in 1..Len(outs["cc"]) : k <= Len(outs["cc2"]) => outs["cc"][k] = outs["cc2"][k]

C5_Witness ==
  /\ Len(outs["cc2"]) >= 2
  /\ Len(outs["cc"]) = Len(outs["cc2"])
  /\ Cardinality(dffs) >= 2
  /\ \E i \in 1..Len(outputs) :
       LET r == outs["cc2"][Len(outs["cc2"])][i]
       IN  r.err = "" /\ \E j \in 1..Len(r.bits) : r.bits[j] = BoolVal(TRUE)

\* C6: a cell of unrecognized type is recorded and adds no node, and a run
\* in which a recognized cell consumes its output fails with an error
\* instead of evaluating that signal.
InputPins(c) == IF c.type = "DFF" THEN {"D"} ELSE DOMAIN c.conn \ {"Y"}

ConsumesUnhandledOutput ==
  \E i, j \in 1..Len(cells) :
    /\ cells[i].type \notin Recognized
    /\ cells[j].type \in Recognized
    /\ \E p \in InputPins(cells[j]) :
         Range(cells[j].conn[p]) \cap Range(cells[i].conn["Y"]) # {}

C6_UnsupportedFailLoud ==
  [][/\ (pc = "cells" /\ cells[ci].type \notin Recognized) =>
          /\ cells[ci].type \in unhandled_types'
          /\ graph' = graph /\ attrs' = attrs /\ pc' # "error"
     /\ ConsumesUnhandledOutput => pc' # "commit"]_vars

\* C7: the netlist is accepted by validation exactly when its combinational
\* subgraph (registers as sources) is acyclic and the full graph, with the
\* data-input -> register edges, is weakly connected; otherwise the run
\* stops before an evaluator is constructed.
InputNode(q) == attrs["G"][q].input_node

FullNodes == Range(graph["G"].nodes) \cup {InputNode(q) : q \in dffs}

RECURSIVE FullReach(_)
FullReach(S) ==
  LET g == graph["G"]
      next == S \cup {m \in FullNodes : \E n \in S :
                        \/ n \in Signals /\ m \in Range(g.succ[n]) \cup Range(g.pred[n])
                        \/ n \in dffs /\ m = InputNode(n)
                        \/ m \in dffs /\ n = InputNode(m)}
  IN  IF next = S THEN S ELSE FullReach(next)

FullWeaklyConnected ==
  FullNodes # {} /\ \A n \in FullNodes : FullReach({n}) = FullNodes

RECURSIVE CombReach(_)
CombReach(S) ==
  LET next == S \cup {m \in Signals : \E n \in S : m \in Range(graph["G"].succ[n])}
  IN  IF next = S THEN S ELSE CombReach(next)

\* operand -> consumer edges only: no edge enters a register from its data input
CombAcyclic ==
  \A n \in Range(graph["G"].nodes) : n \notin CombReach(Range(graph["G"].succ[n]))

ValidationDone ==
  pc \notin {"ports", "cells", "validate"} /\ ~(pc = "error" /\ errAt = "load")

C7_StructuralValidation ==
  ValidationDone =>
    /\ (errAt # "validate") <=> (CombAcyclic /\ FullWeaklyConnected)
    /\ errAt = "validate" => (\A e \in Evaluators : ev[e] = "") /\ cycle = 0 /\ ins = << >>

\* C8: a NOT, AND or DFF cell with a required pin bound to zero or to more
\* than one signal makes loading fail; no evaluator is constructed and no
\* cycle is stepped.
RequiredPins(t) ==
  CASE t = "NOT" -> {"A", "Y"} [] t = "AND" -> {"A", "B", "Y"} [] t = "DFF" -> {"C", "D", "Q"}

MalformedCell(c) ==
  c.type \in Recognized /\ \E p \in RequiredPins(c.type) : Len(c.conn[p]) # 1

HasMalformedPin == \E i \in 1..Len(cells) : MalformedCell(cells[i])

NothingRan == (\A e \in Evaluators : ev[e] = "") /\ cycle = 0 /\ ins = << >>

C8_MalformedRejected ==
  HasMalformedPin =>
    /\ pc \in {"ports", "cells", "error"}
    /\ pc = "error" => errAt = "load"
    /\ NothingRan

C8_Witness ==
  /\ pc = "error" /\ errAt = "load" /\ err = "AssertionError"
  /\ ci > 1
  /\ \E p \in RequiredPins(cells[ci].type) : Len(cells[ci].conn[p]) = 2

\* C9: loading succeeds only if the clk port is an input bound to exactly one
\* signal and the C pin of every DFF cell binds that signal; otherwise it
\* fails before any cycle is stepped.
ClkPorts == {i \in 1..Len(ports) : ports[i].name = "clk"}

ClockPortOk ==
  /\ Cardinality(ClkPorts) = 1
  /\ \A i \in ClkPorts : ports[i].direction = "input" /\ Len(ports[i].bits) = 1

DffClocksOk ==
  \A i \in 1..Len(cells) : cells[i].type = "DFF" =>
    \A k \in ClkPorts : cells[i].conn["C"] = ports[k].bits

Loaded == pc \notin {"ports", "cells"} /\ ~(pc = "error" /\ errAt = "load")

C9_ClockUniqueness ==
  /\ Loaded => ClockPortOk /\ DffClocksOk
  /\ ~(ClockPortOk /\ DffClocksOk) => NothingRan

C9_Witness ==
  /\ pc = "error" /\ errAt = "load"
  /\ ClockPortOk
  /\ cells[ci].type = "DFF"
  /\ ~MalformedCell(cells[ci])
  /\ cells[ci].conn["C"][1] # clk_bit
  /\ HasNode(graph["G"], cells[ci].conn["Q"][1])

\* C10: a step or a reset of one evaluator (its construction included)
\* changes no node value of another evaluator, nor the graph the loader built.
NodeValues(e) ==
  [n \in Signals |-> <<attrs[ev[e]][n].value, Decoded(e, n)>>]

StepOrReset == pc \in {"construct", "commit", "reset"} \/ (pc = "comb" /\ pc' # "comb")

C10_EvaluatorIndependence ==
  [][StepOrReset =>
       \A e \in Evaluators : e = Acting =>
         /\ graph'["G"] = graph["G"] /\ attrs'["G"] = attrs["G"]
         /\ \A e2 \in Evaluators \ {e} :
              ev[e2] # "" => ev'[e2] = ev[e2] /\ NodeValues(e2)' = NodeValues(e2)]_vars

\* the cleartext evaluator has stepped and now differs from the second one
C10_Witness ==
  /\ pc = "comb" /\ turn = 2
  /\ \E n \in Range(graph["G"].nodes) : Decoded("cc", n) # Decoded("cc2", n)

\* C11: bits_to_int returns the sum over i of b[i] * 2^i (i counted from 0),
\* so the first element is the least-significant bit and the empty list
\* gives 0.
RECURSIVE WeightedSum(_, _)
WeightedSum(b, i) ==
  IF i > Len(b) THEN 0
  ELSE (IF b[i] = BoolVal(TRUE) THEN 2 ^ (i - 1) ELSE 0) + WeightedSum(b, i + 1)

C11_LsbFirst == pc = "returned" => ret = WeightedSum(bits_arg, 1)

\* the first and the last bit differ, so the bit order shows in the result
C11_Witness ==
  /\ pc = "returned"
  /\ Len(bits_arg) >= 3
  /\ bits_arg[1] = BoolVal(TRUE) /\ bits_arg[Len(bits_arg)] = BoolVal(FALSE)
  /\ ret = 1 + 2 * (ret \div 2)

\* C12: a call of get_bits changes no node value, no ciphertext and nothing
\* else a step reads; the lists it returned are the decoded values of the
\* requested signals, one per signal in the requested order; and any further
\* call before the next step returns the same lists.
GotEvaluator == ev[got.e]

C12_DecodePurity ==
  /\ [](got.e # "" =>
         /\ got.res = Snapshot(got.e, graph[GotEvaluator], attrs[GotEvaluator], ct)
         /\ \A i \in 1..Len(outputs) :
              got.res[i].err = "" =>
                /\ Len(got.res[i].bits) = Len(outputs[i].bits)
                /\ \A j \in 1..Len(outputs[i].bits) :
                     got.res[i].bits[j] = Decoded(got.e, outputs[i].bits[j]))
  /\ [][(got' # got /\ got' # NoCall) \/ pc = "output" =>
          attrs' = attrs /\ ct' = ct /\ graph' = graph /\ dffs' = dffs /\ ev' = ev]_vars

\* get_bits was called after a cycle on two signals whose values differ
C12_Witness ==
  /\ got.e = "cc"
  /\ cycle >= 1
  /\ \E i \in 1..Len(outputs) :
       /\ got.res[i].err = ""
       /\ Len(got.res[i].bits) = 2
       /\ got.res[i].bits[1] # got.res[i].bits[2]

\* C13: when the commit phase of a step begins, every NOT node holds the
\* negation of the current value of its operand and every AND node the
\* conjunction of the current values of its two operands.
Truth(x) == x = BoolVal(TRUE)

GateConsistent(e, n) ==
  LET t == attrs[ev[e]][n].type
      p == graph[ev[e]].pred[n]
  IN  /\ t = "NOT" => Len(p) = 1 /\ Decoded(e, n) = BoolVal(~Truth(Decoded(e, p[1])))
      /\ t = "AND" => /\ Len(p) = 2
                      /\ Decoded(e, n) = BoolVal(Truth(Decoded(e, p[1])) /\ Truth(Decoded(e, p[2])))

C13_CombConsistency ==
  pc = "commit" =>
    \A e \in Evaluators : e = Acting => \A n \in Range(graph[ev[e]].nodes) : GateConsistent(e, n)

IsGate(e, n) == attrs[ev[e]][n].type \in {"NOT", "AND"}

\* the encrypted evaluator is about to commit and a gate that is fed by
\* another gate holds 1
C13_Witness ==
  /\ pc = "commit" /\ Acting = "ec"
  /\ \E n \in Range(graph["G"].nodes) :
       /\ IsGate("ec", n) /\ Decoded("ec", n) = BoolVal(TRUE)
       /\ \E m \in Range(graph[ev["ec"]].pred[n]) : IsGate("ec", m)

\* C14: in every graph that was loaded and passed validation every AND node
\* has exactly two operands and every NOT node exactly one, and no step
\* fails an operand-count assertion.
Accepted == ValidationDone /\ errAt # "validate"

OperandCountsOk(o) ==
  \A n \in Range(graph[o].nodes) :
    /\ attrs[o][n].type = "AND" => Len(graph[o].pred[n]) = 2
    /\ attrs[o][n].type = "NOT" => Len(graph[o].pred[n]) = 1

C14_OperandCount ==
  /\ Accepted => OperandCountsOk("G")
  /\ ~(pc = "error" /\ errAt = "step" /\ err = "AssertionError")

\* C15: for every AND cell whose output node is evaluated as an AND, the
\* first value the step passed to the and-operation is the value of the
\* signal on pin A and the second the value of the signal on pin B.
AndCells == {i \in 1..Len(cells) : cells[i].type = "AND" /\ ~MalformedCell(cells[i])}

C15_OperandOrder ==
  pc = "commit" =>
    \A e \in Evaluators : e = Acting =>
      \A i \in AndCells :
        LET y == cells[i].conn["Y"][1]
            preds == graph[ev[e]].pred[y]
        IN  (attrs[ev[e]][y].type = "AND" /\ Len(preds) = 2) =>
              /\ Decoded(e, preds[1]) = Decoded(e, cells[i].conn["A"][1])
              /\ Decoded(e, preds[2]) = Decoded(e, cells[i].conn["B"][1])

\* C16: for every topological order of the evaluator's graph, one step that
\* visits the nodes in that order leaves the same value in every node, both
\* when the commit phase begins and when the step ends, as the step that
\* visits them in the order of dag.topological_sort (and fails exactly when
\* that step fails).
\* The topological orders of the nodes in S: a node may come first when
\* none of its predecessors is still to come.
RECURSIVE OrdersOf(_, _)
OrdersOf(g, S) ==
  IF S = {} THEN {<< >>}
  ELSE UNION {{<<n>> \o rest : rest \in OrdersOf(g, S \ {n})} :
                n \in {m \in S : Range(g.pred[m]) \cap S = {}}}

TopoOrders(g) == OrdersOf(g, Range(g.nodes))

StepOutcome(e, order) ==
  LET g == graph[ev[e]]
      at == attrs[ev[e]]
  IN  IF e = "ec"
      THEN LET r == EcCombLoop(order, g, at, ct)
               r2 == EcCommitLoop(SetIter(dffs), g, at, r.ct)
           IN  IF r.err # "" \/ r2.err # "" THEN [failed |-> TRUE, comb |-> << >>, values |-> << >>]
               ELSE [failed |-> FALSE,
                     comb |-> [n \in Signals |-> DecodedIn(at, r.ct, n)],
                     values |-> [n \in Signals |-> DecodedIn(at, r2.ct, n)]]
      ELSE LET r == CcCombLoop(order, g, at)
               r2 == CcCommitLoop(SetIter(dffs), g, r.attrs)
           IN  IF r.err # "" \/ r2.err # "" THEN [failed |-> TRUE, comb |-> << >>, values |-> << >>]
               ELSE [failed |-> FALSE,
                     comb |-> [n \in Signals |-> r.attrs[n].value],
                     values |-> [n \in Signals |-> r2.attrs[n].value]]

C16_ScheduleIndependence ==
  pc = "comb" =>
    \A e \in Evaluators : e = Acting =>
      /\ topological_sort(graph[ev[e]]) \in TopoOrders(graph[ev[e]])
      /\ \A order \in TopoOrders(graph[ev[e]]) :
           StepOutcome(e, order) = StepOutcome(e, topological_sort(graph[ev[e]]))

\* a graph with several topological orders, a register, and a node holding 1
\* that the step about to run will change
C16_Witness ==
  /\ pc = "comb" /\ Acting = "ec" /\ cycle >= 1
  /\ Cardinality(TopoOrders(graph[ev["ec"]])) >= 3
  /\ dffs # {}
  /\ LET r == StepOutcome("ec", topological_sort(graph[ev["ec"]]))
     IN  ~r.failed /\ \E n \in Range(graph["G"].nodes) :
                       Decoded("ec", n) = BoolVal(TRUE) /\ r.values[n] # Decoded("ec", n)

\* C17: the combinational pass of a step (whether it ends or fails) changes
\* the value of no node without a type and of no node typed DFF, and the
\* commit phase changes the value of no node without a type.
TypeOf(e, n) == attrs[ev[e]][n].type

ValueOf(e, n) == <<attrs[ev[e]][n].value, Decoded(e, n)>>

RegisterValues(e) ==
  [n \in Signals |-> IF n \in dffs \/ TypeOf(e, n) = "DFF" THEN ValueOf(e, n) ELSE << >>]

C18_ErrorsAbort ==
  /\ [][(pc = "comb" /\ err' # "") =>
          /\ turn = 1
          /\ \A e \in Evaluators : RegisterValues(e)' = RegisterValues(e)
          /\ outs' = outs /\ printed' = printed /\ cycle' = cycle /\ got' = NoCall]_vars
  /\ [][err = ""]_vars

\* a step failed an operand-count assertion in a circuit that has a register,
\* after a primary input was driven high
C18_Witness ==
  /\ pc = "error" /\ errAt = "step" /\ err = "AssertionError"
  /\ dffs # {}
  /\ \E n \in Range(graph["G"].nodes) : Decoded("cc", n) = BoolVal(TRUE)

\* C19: whatever the order in which the cells of the netlist are processed,
\* the cell loop either fails in every order or builds in every order the
\* same nodes, edges, node types, register set and register data inputs.
RECURSIVE LoadAll(_, _)
LoadAll(cs, acc) ==
  IF cs = << >> \/ acc.err # "" THEN acc
  ELSE LoadAll(Tail(cs),
               LoadCellResult(Head(cs), acc.G, acc.attrs, acc.dffs, acc.unhandled, clk_bit))

LoadOutcome(cs) ==
  LET r == LoadAll(cs, [err |-> "", G |-> EmptyGraph, attrs |-> EmptyAttrs,
                        dffs |-> {}, unhandled |-> {}])
  IN  IF r.err # "" THEN [failed |-> TRUE, nodes |-> {}, edges |-> {}, types |-> << >>,
                          inputs |-> << >>, dffs |-> {}]
      ELSE [failed |-> FALSE,
            nodes |-> Range(r.G.nodes),
            edges |-> {<<u, v>> \in Signals \X Signals : v \in Range(r.G.succ[u])},
            types |-> [n \in Signals |-> r.attrs[n].type],
            inputs |-> [n \in Signals |-> r.attrs[n].input_node],
            dffs |-> r.dffs]

Orderings(cs) ==
  {[i \in 1..Len(cs) |-> cs[p[i]]] :
     p \in {q \in [1..Len(cs) -> 1..Len(cs)] : \A i, j \in 1..Len(cs) : i # j => q[i] # q[j]}}

C19_CellOrderIndependence ==
  (pc = "cells" /\ ci = 1) =>
    \A o \in Orderings(cells) : LoadOutcome(o) = LoadOutcome(cells)

\* C20: once an evaluator is constructed, every signal its step or get_bits
\* reads (each gate operand, each register, each register's data input and
\* each declared output bit) is a node of its graph holding a value, and no
\* step or extraction fails on a missing node or value.
ReadSignals(e) ==
  UNION {Range(graph[ev[e]].pred[n]) : n \in {m \in Range(graph[ev[e]].nodes) : IsGate(e, m)}}
  \cup dffs
  \cup {attrs[ev[e]][q].input_node : q \in dffs}
  \cup UNION {Range(outputs[i].bits) : i \in 1..Len(outputs)}

Initialized(e, n) ==
  n \in Signals /\ HasNode(graph[ev[e]], n) /\ attrs[ev[e]][n].value # NoValue

C20_NoUninitializedRead ==
  /\ \A e \in Evaluators : ev[e] # "" => \A n \in ReadSignals(e) : Initialized(e, n)
  /\ ~(pc = "error" /\ errAt \in {"step", "output"} /\ err = "KeyError")

====
